---------------------------- MODULE Spec2Model ----------------------------
(***************************************************************************)
(* Model of the aos-mcp tool server: the embedding tools                   *)
(* (src/tools/embedding.py), the document tools (src/tools/document.py)    *)
(* and the server's tool registration (src/server.py).                     *)
(*                                                                         *)
(* Python values are modelled as follows.                                  *)
(*   dict          a function whose domain is a set of strings             *)
(*   list          a sequence                                              *)
(*   None          NoneVal (string-typed slots) or NoMetadata (dict slot)  *)
(*   List[float]   Vec(n, c): its length n and a label c for its content;  *)
(*                 the code reads nothing of a vector but len()            *)
(*   an exception escaping a handler: a result with status "fault"         *)
(* Every handler is a pure function of its arguments, the configured token *)
(* and the responses of the two remote services; the responses are inputs  *)
(* of the actions. An invocation record keeps the remote calls issued, in  *)
(* order, and the returned result.                                         *)
(***************************************************************************)
EXTENDS Integers, Sequences, FiniteSets, TLC

VARIABLES
    api_token,   \* EmbeddingTools.api_token, fixed at construction
    phase,       \* "boot" before SearchMCPServer._register_tools, then "running"
    registry,    \* the tool names registered on the FastMCP instance
    store,       \* the index service's documents, by caller-chosen id
    inv          \* the invocation in hand: operation, arguments, calls, result

vars == <<api_token, phase, registry, store, inv>>

-----------------------------------------------------------------------------
(* Bounds of the model *)

MaxDocs == 2        \* longest documents list given to a bulk operation
MaxHits == 2        \* longest hit list the index service answers with

-----------------------------------------------------------------------------
(* Configuration: EmbeddingTools.__init__ *)

embedding_api_url == "https://api.siliconflow.cn/v1/embeddings"
default_model == "Pro/BAAI/bge-m3"
vector_field == "dense_vector"
vector_dimension == 1024
index_name == "default-index"

-----------------------------------------------------------------------------
(* Python values *)

NoneVal == "<None>"
EmptyDict == <<>>
NoMetadata == <<>>                  \* metadata=None; a given dict d is <<d>>
Vec(n, c) == [len |-> n, content |-> c]
EmptyList == Vec(0, "")
PyLen(v) == v.len
Get(d, k, default) == IF k \in DOMAIN d THEN d[k] ELSE default
Without(d, keys) == [f \in (DOMAIN d) \ keys |-> d[f]]
Put(d, k, v) == [f \in (DOMAIN d) \cup {k} |-> IF f = k THEN v ELSE d[f]]
json_dumps(q) == [json |-> q]       \* the JSON text of q, as the service reads it

SeqsUpTo(S, n) == UNION {[1..m -> S] : m \in 0..n}

Fault(exc) == [status |-> "fault", exception |-> exc]
Idle == [op |-> "idle", args |-> EmptyDict, calls |-> <<>>,
         result |-> [status |-> "none"]]

-----------------------------------------------------------------------------
(* Inputs *)

Tokens == {NoneVal, "", "sk-token"}
Texts == {"alpha", "beta"}
Models == {NoneVal, "BAAI/bge-large"}
Ks == {1, 3}
V1024 == Vec(vector_dimension, "e")
V768 == Vec(vector_dimension - 256, "e")
DocumentIds == {NoneVal, "", "d1"}
Metadatas == {NoMetadata, << EmptyDict >>, << [tag |-> "m", text |-> "stale"] >>}
QueryVectors == {Vec(0, "q"), Vec(vector_dimension - 1, "q"),
                 Vec(vector_dimension, "q"), Vec(vector_dimension + 1, "q")}

(* What the embedding provider may do with one POST: the transport fails,  *)
(* the HTTP status is an error, or a JSON body arrives.                    *)
EmbeddingPayloads ==
    { [data |-> << [embedding |-> V1024, index |-> 0] >>],
      [data |-> << [embedding |-> V768, index |-> 0] >>],
      [error |-> "bad request"],                  \* no "data"
      [data |-> <<>>],                            \* empty data list
      [data |-> << [index |-> 0] >>] }            \* no "embedding"
EmbeddingResponses ==
    { [kind |-> "conn_error", error |-> "connection refused"],
      [kind |-> "http", status_code |-> 500, body |-> EmptyDict] }
    \cup { [kind |-> "http", status_code |-> 200, body |-> p] : p \in EmbeddingPayloads }

-----------------------------------------------------------------------------
(* EmbeddingTools.generate_embedding *)

token_missing_none_only == api_token = NoneVal
token_missing == api_token = NoneVal \/ api_token = ""

first_embedding(body) ==
    Get(Get(body, "data", << EmptyDict >>)[1], "embedding", EmptyList)

generate_embedding(text, model, resp) ==
    IF token_missing
    THEN [result |-> [status |-> "error",
                      message |-> "API token not configured for embedding service"],
          calls |-> <<>>]
    ELSE
      LET model_name == IF model # NoneVal /\ model # "" THEN model ELSE default_model
          post == [service |-> "embedding", call |-> "post",
                   url |-> embedding_api_url,
                   json |-> [model |-> model_name, input |-> text,
                             encoding_format |-> "float"],
                   headers |-> [Authorization |-> "Bearer " \o api_token,
                                ContentType |-> "application/json"],
                   response |-> resp]
      IN  [calls |-> << post >>,
           result |->
             IF resp.kind = "conn_error"
             THEN [status |-> "error",
                   message |-> "API request failed: " \o resp.error]
             ELSE IF resp.status_code >= 400
             THEN [status |-> "error",
                   message |-> "API request failed: " \o ToString(resp.status_code)
                                  \o " Server Error"]
             ELSE IF Len(Get(resp.body, "data", << EmptyDict >>)) = 0
             THEN [status |-> "error",
                   message |-> "Unexpected error: list index out of range"]
             ELSE [status |-> "success",
                   embedding |-> first_embedding(resp.body),
                   model |-> model_name]]

-----------------------------------------------------------------------------
(* The index client (common/aos_client.py), from the specification, 4.2:   *)
(* every operation is request/response and answers with a structured       *)
(* status, "success" with the service's payload or "error" with a message, *)
(* and never raises. The store keeps the documents written under an id the *)
(* caller chose; a document the service files under an id of its own is    *)
(* kept by the service under an id no caller of the model ever names.      *)

Sources ==
    { [text |-> "alpha", tag |-> "x"],
      [text |-> "beta", tag |-> "y", dense_vector |-> V1024],
      [tag |-> "z"] }
Hits ==
    { [_id |-> "h" \o s.tag, _score |-> 1, _source |-> s] : s \in Sources }
    \cup { [_id |-> "h0", _score |-> 1] }          \* a hit without _source
RawResults ==
    { [hits |-> [total |-> Len(hl), hits |-> hl]] : hl \in SeqsUpTo(Hits, MaxHits) }
    \cup { EmptyDict, [hits |-> [total |-> 0]] }   \* incomplete payloads
ServiceError == [status |-> "error", message |-> "index service unavailable"]
KnnResponses ==
    { [status |-> "success", results |-> r] : r \in RawResults } \cup { ServiceError }
ServiceBehaviours == {"ok", "error"}
SearchBehaviours == {"ok", "error", "incomplete"}

aos_search_by_id(document_id, behaviour) ==
    IF behaviour = "error" THEN ServiceError
    ELSE IF behaviour = "incomplete" THEN [status |-> "success", results |-> EmptyDict]
    ELSE LET found == IF document_id \in DOMAIN store
                      THEN << [_index |-> index_name, _id |-> document_id,
                               _score |-> 1, _source |-> store[document_id]] >>
                      ELSE <<>>
         IN  [status |-> "success",
              results |-> [hits |-> [total |-> Len(found), hits |-> found]]]

aos_write_document(document_id, document, behaviour) ==
    IF behaviour = "error" THEN [result |-> ServiceError, store |-> store]
    ELSE [result |-> [status |-> "success",
                      response |-> [_index |-> index_name, _id |-> document_id,
                                    result |-> IF document_id \in DOMAIN store
                                               THEN "updated" ELSE "created"]],
          store |-> Put(store, document_id, document)]

aos_index_document(document, behaviour) ==
    IF behaviour = "error" THEN [result |-> ServiceError, store |-> store]
    ELSE [result |-> [status |-> "success",
                      response |-> [_index |-> index_name, _id |-> "generated",
                                    result |-> "created"]],
          store |-> store]

aos_delete_document(document_id, behaviour) ==
    IF behaviour = "error" \/ document_id \notin DOMAIN store
    THEN [result |-> [status |-> "error",
                      message |-> IF behaviour = "error" THEN ServiceError.message
                                  ELSE "not_found"],
          store |-> store]
    ELSE [result |-> [status |-> "success",
                      response |-> [_index |-> index_name, _id |-> document_id,
                                    result |-> "deleted"]],
          store |-> Without(store, {document_id})]

-----------------------------------------------------------------------------
(* EmbeddingTools.knn_search *)

dimension_mismatch_below(vector) == PyLen(vector) < vector_dimension
dimension_mismatch(vector) == PyLen(vector) # vector_dimension

hit_metadata_keeps_vector(source) == Without(source, {"text"})
hit_metadata(source) == Without(source, {"text", vector_field})

simplified_result(hit) ==
    LET source == Get(hit, "_source", EmptyDict)
    IN  [id |-> Get(hit, "_id", NoneVal),
         score |-> Get(hit, "_score", NoneVal),
         text |-> Get(source, "text", ""),
         metadata |-> hit_metadata(source)]

knn_query(vector, k) ==
    [size |-> k,
     query |-> [knn |-> (vector_field :> [vector |-> vector, k |-> k])],
     _source |-> [excludes |-> << vector_field >>]]

knn_search(vector, k, resp) ==
    IF dimension_mismatch(vector)
    THEN [result |-> [status |-> "error",
                      message |-> "Vector dimension mismatch. Expected "
                                     \o ToString(vector_dimension) \o ", got "
                                     \o ToString(PyLen(vector))],
          calls |-> <<>>]
    ELSE
      LET search == [service |-> "index", call |-> "search_documents",
                     query |-> json_dumps(knn_query(vector, k)), size |-> k,
                     response |-> resp]
          hits == Get(Get(resp.results, "hits", EmptyDict), "hits", <<>>)
          simplified_results == [i \in 1..Len(hits) |-> simplified_result(hits[i])]
      IN  [calls |-> << search >>,
           result |->
             IF resp.status = "success" /\ "results" \in DOMAIN resp
             THEN [status |-> "success",
                   results |-> simplified_results,
                   total |-> Len(simplified_results)]
             ELSE resp]

-----------------------------------------------------------------------------
(* The tools EmbeddingTools.register_tools defines *)

Truthy_not_none(s) == s # NoneVal
Truthy(s) == s # NoneVal /\ s # ""
metadata_or_empty(metadata) == IF metadata = NoMetadata \/ metadata[1] = EmptyDict
                               THEN EmptyDict ELSE metadata[1]

index_text_with_embedding(text, document_id, metadata, embResp, behaviour) ==
    LET embedding_result == generate_embedding(text, NoneVal, embResp)
    IN  IF embedding_result.result.status # "success"
        THEN [result |-> embedding_result.result, calls |-> embedding_result.calls,
              store |-> store]
        ELSE
          LET document == Put(Put(metadata_or_empty(metadata), "text", text),
                              vector_field, embedding_result.result.embedding)
              w == IF Truthy(document_id)
                   THEN aos_write_document(document_id, document, behaviour)
                   ELSE aos_index_document(document, behaviour)
              call == IF Truthy(document_id)
                      THEN [service |-> "index", call |-> "write_document",
                            document_id |-> document_id, document |-> document,
                            response |-> w.result]
                      ELSE [service |-> "index", call |-> "index_document",
                            document |-> document, response |-> w.result]
          IN  [result |-> w.result,
               calls |-> Append(embedding_result.calls, call),
               store |-> w.store]

text_similarity_search_retrying(text, k, embResp, resp) ==
    LET embedding_result == generate_embedding(text, NoneVal, embResp)
    IN  IF embedding_result.result.status # "success"
        THEN [result |-> embedding_result.result, calls |-> embedding_result.calls]
        ELSE
          LET search_result == knn_search(embedding_result.result.embedding, k, resp)
          IN  IF search_result.result.status = "success"
              THEN [calls |-> embedding_result.calls \o search_result.calls,
                    result |-> [status |-> "success",
                                query_text |-> text,
                                results |-> search_result.result.results,
                                total |-> Get(search_result.result, "total", 0)]]
              ELSE [calls |-> embedding_result.calls \o search_result.calls
                                \o search_result.calls,
                    result |-> search_result.result]
text_similarity_search(text, k, embResp, resp) ==
    LET embedding_result == generate_embedding(text, NoneVal, embResp)
    IN  IF embedding_result.result.status # "success"
        THEN [result |-> embedding_result.result, calls |-> embedding_result.calls]
        ELSE
          LET search_result == knn_search(embedding_result.result.embedding, k, resp)
          IN  [calls |-> embedding_result.calls \o search_result.calls,
               result |->
                 IF search_result.result.status = "success"
                 THEN IF "results" \in DOMAIN search_result.result
                      THEN [status |-> "success",
                            query_text |-> text,
                            results |-> search_result.result.results,
                            total |-> Get(search_result.result, "total", 0)]
                      ELSE Fault("KeyError: 'results'")
                 ELSE search_result.result]

-----------------------------------------------------------------------------
(* The raw client's bulk call, get_client().bulk(body=..., refresh=True):  *)
(* it returns the service's response or raises. A pair whose action header *)
(* names an _id is stored under that id.                                   *)

BulkBehaviours == {"ok", "raise"}

RECURSIVE bulk_store(_, _, _)
bulk_store(st, body, i) ==
    IF i > Len(body) THEN st
    ELSE LET header == body[i].index
         IN  bulk_store(IF "_id" \in DOMAIN header
                        THEN Put(st, header._id, body[i + 1]) ELSE st,
                        body, i + 2)

client_bulk(body, behaviour) ==
    IF behaviour = "raise"
    THEN [raised |-> TRUE, error |-> "connection refused", store |-> store]
    ELSE [raised |-> FALSE,
          response |-> [errors |-> FALSE, items |-> Len(body) \div 2],
          store |-> bulk_store(store, body, 1)]

bulk_call(body, b) ==
    [service |-> "index", call |-> "bulk", body |-> body, refresh |-> TRUE,
     response |-> IF b.raised THEN [raised |-> b.error] ELSE b.response]

-----------------------------------------------------------------------------
(* EmbeddingTools.bulk_index_with_embeddings *)

BulkDocs == { [text |-> "alpha"], [foo |-> "b"], [_id |-> "d1", text |-> "beta"] }
TextFields == {"text", "foo"}
BulkEmbeddingResponses ==
    { [kind |-> "conn_error", error |-> "connection refused"],
      [kind |-> "http", status_code |-> 200, body |-> [data |-> <<>>]],
      [kind |-> "http", status_code |-> 200,
       body |-> [data |-> << [embedding |-> V1024, index |-> 0] >>]] }

missing_text_field(text_field) == "Missing text field '" \o text_field \o "'"

(* One pass of the first loop: acc holds processed_docs, failed_docs and   *)
(* the calls issued so far.                                                *)
embed_document_aborting(acc, doc, text_field, resp) ==
    IF acc.failed_docs # <<>> THEN acc
    ELSE IF text_field \notin DOMAIN doc
    THEN [acc EXCEPT !.failed_docs =
            Append(@, [doc |-> doc, reason |-> missing_text_field(text_field)])]
    ELSE LET e == generate_embedding(doc[text_field], NoneVal, resp)
         IN  IF e.result.status # "success"
             THEN [acc EXCEPT !.failed_docs =
                                Append(@, [doc |-> doc, reason |-> e.result.message]),
                              !.calls = @ \o e.calls]
             ELSE [acc EXCEPT !.processed_docs =
                                Append(@, Put(doc, vector_field, e.result.embedding)),
                              !.calls = @ \o e.calls]
embed_document(acc, doc, text_field, resp) ==
    IF text_field \notin DOMAIN doc
    THEN [acc EXCEPT !.failed_docs =
            Append(@, [doc |-> doc, reason |-> missing_text_field(text_field)])]
    ELSE LET embedding_result == generate_embedding(doc[text_field], NoneVal, resp)
         IN  IF embedding_result.result.status # "success"
             THEN [acc EXCEPT !.failed_docs =
                                Append(@, [doc |-> doc,
                                           reason |-> embedding_result.result.message]),
                              !.calls = @ \o embedding_result.calls]
             ELSE [acc EXCEPT !.processed_docs =
                                Append(@, Put(doc, vector_field,
                                              embedding_result.result.embedding)),
                              !.calls = @ \o embedding_result.calls]

RECURSIVE embed_documents(_, _, _, _)
embed_documents(documents, text_field, resps, n) ==
    IF n = 0
    THEN [processed_docs |-> <<>>, failed_docs |-> <<>>, calls |-> <<>>]
    ELSE embed_document(embed_documents(documents, text_field, resps, n - 1),
                        documents[n], text_field, resps[n])

(* One pass of the second loop: the action header and the document body.   *)
bulk_entry(doc) ==
    IF "_id" \in DOMAIN doc
    THEN << [index |-> [_index |-> index_name, _id |-> doc._id]],
            Without(doc, {"_id"}) >>
    ELSE << [index |-> [_index |-> index_name]], doc >>

RECURSIVE bulk_data(_)
bulk_data(docs) ==
    IF docs = <<>> THEN <<>>
    ELSE bulk_entry(Head(docs)) \o bulk_data(Tail(docs))

no_documents_processed_never(processed_docs) == FALSE
no_documents_processed(processed_docs) == Len(processed_docs) = 0

bulk_index_with_embeddings(documents, text_field, resps, behaviour) ==
    LET acc == embed_documents(documents, text_field, resps, Len(documents))
        processed_docs == acc.processed_docs
        failed_docs == acc.failed_docs
    IN  IF no_documents_processed(processed_docs)
        THEN [result |-> [status |-> "error",
                          message |-> "No documents were processed successfully",
                          failed_docs |-> failed_docs],
              calls |-> acc.calls, store |-> store,
              processed_docs |-> processed_docs, failed_docs |-> failed_docs]
        ELSE
          LET b == client_bulk(bulk_data(processed_docs), behaviour)
          IN  [result |->
                 IF b.raised
                 THEN [status |-> "error",
                       message |-> "Bulk indexing error: " \o b.error]
                 ELSE [status |-> "success",
                       response |-> b.response,
                       processed_count |-> Len(processed_docs),
                       failed_count |-> Len(failed_docs),
                       failed_docs |-> IF failed_docs # <<>> THEN failed_docs
                                       ELSE NoneVal],
               calls |-> Append(acc.calls, bulk_call(bulk_data(processed_docs), b)),
               store |-> b.store,
               processed_docs |-> processed_docs, failed_docs |-> failed_docs]

-----------------------------------------------------------------------------
(* The tools DocumentTools.register_tools defines *)

Queries == { "{\"query\": {\"match_all\": {}}}" }
PutDocs == { [text |-> "manual"] }
StoredIds == DocumentIds \ {NoneVal}

search_documents(query, size, resp) ==
    [result |-> resp,
     calls |-> << [service |-> "index", call |-> "search_documents",
                   query |-> query, size |-> size, response |-> resp] >>]

get_document(document_id, behaviour) ==
    LET query == [query |-> [term |-> [_id |-> document_id]]]
        result == aos_search_by_id(document_id, behaviour)
    IN  [calls |-> << [service |-> "index", call |-> "search_documents",
                       query |-> json_dumps(query), size |-> 1,
                       response |-> result] >>,
         result |->
           IF result.status # "success"
           THEN [status |-> "error",
                 message |-> "Document with ID " \o document_id \o " not found"]
           ELSE IF "hits" \notin DOMAIN result.results
           THEN Fault("KeyError: 'hits'")
           ELSE IF "hits" \notin DOMAIN result.results.hits
           THEN Fault("KeyError: 'hits'")
           ELSE IF Len(result.results.hits.hits) > 0
           THEN [status |-> "success", document |-> result.results.hits.hits[1]]
           ELSE [status |-> "error",
                 message |-> "Document with ID " \o document_id \o " not found"]]

put(document_id, document, behaviour) ==
    LET w == aos_write_document(document_id, document, behaviour)
    IN  [result |-> w.result, store |-> w.store,
         calls |-> << [service |-> "index", call |-> "write_document",
                       document_id |-> document_id, document |-> document,
                       response |-> w.result] >>]

delete_document(document_id, behaviour) ==
    LET d == aos_delete_document(document_id, behaviour)
    IN  [result |-> d.result, store |-> d.store,
         calls |-> << [service |-> "index", call |-> "delete_document",
                       document_id |-> document_id, response |-> d.result] >>]

plain_bulk_entry(doc, generate_ids) ==
    IF "_id" \in DOMAIN doc /\ ~generate_ids
    THEN << [index |-> [_index |-> index_name, _id |-> doc._id]],
            Without(doc, {"_id"}) >>
    ELSE << [index |-> [_index |-> index_name]], doc >>

RECURSIVE plain_bulk_data(_, _)
plain_bulk_data(docs, generate_ids) ==
    IF docs = <<>> THEN <<>>
    ELSE plain_bulk_entry(Head(docs), generate_ids)
           \o plain_bulk_data(Tail(docs), generate_ids)

bulk_index_documents(documents, generate_ids, behaviour) ==
    LET body == plain_bulk_data(documents, generate_ids)
        b == client_bulk(body, behaviour)
    IN  [result |-> IF b.raised
                    THEN [status |-> "error",
                          message |-> "Bulk indexing error: " \o b.error]
                    ELSE [status |-> "success", response |-> b.response],
         calls |-> << bulk_call(body, b) >>,
         store |-> b.store]

-----------------------------------------------------------------------------
(* Tool registration: the names each register_tools decorates with         *)
(* @mcp.tool(), and SearchMCPServer._register_tools, which calls           *)
(* EmbeddingTools.register_tools alone.                                    *)

EmbeddingTools_register_tools == {"index_text_with_embedding", "text_similarity_search"}
DocumentTools_register_tools ==
    {"search_documents", "get_document", "put", "delete_document",
     "bulk_index_documents"}
ClusterTools_register_tools == {"get_cluster_health", "get_cluster_stats"}
SearchMCPServer_register_tools == EmbeddingTools_register_tools

-----------------------------------------------------------------------------
(* Actions *)

GenerateEmbedding ==
    /\ phase = "running" /\ inv.op = "idle"
    /\ \E text \in Texts, model \in Models, resp \in EmbeddingResponses :
         LET r == generate_embedding(text, model, resp)
         IN  inv' = [op |-> "generate_embedding",
                     args |-> [text |-> text, model |-> model],
                     calls |-> r.calls, result |-> r.result]
    /\ UNCHANGED <<api_token, phase, registry, store>>

KnnSearch ==
    /\ phase = "running" /\ inv.op = "idle"
    /\ \E vector \in QueryVectors, k \in Ks, resp \in KnnResponses :
         LET r == knn_search(vector, k, resp)
         IN  inv' = [op |-> "knn_search",
                     args |-> [vector |-> vector, k |-> k],
                     calls |-> r.calls, result |-> r.result]
    /\ UNCHANGED <<api_token, phase, registry, store>>

IndexTextWithEmbedding ==
    /\ phase = "running" /\ inv.op = "idle"
    /\ \E text \in Texts, document_id \in DocumentIds, metadata \in Metadatas,
          embResp \in EmbeddingResponses, behaviour \in ServiceBehaviours :
         LET r == index_text_with_embedding(text, document_id, metadata,
                                            embResp, behaviour)
         IN  /\ inv' = [op |-> "index_text_with_embedding",
                        args |-> [text |-> text, document_id |-> document_id,
                                  metadata |-> metadata],
                        calls |-> r.calls, result |-> r.result]
             /\ store' = r.store
    /\ UNCHANGED <<api_token, phase, registry>>

TextSimilaritySearch ==
    /\ phase = "running" /\ inv.op = "idle"
    /\ \E text \in Texts, k \in Ks, embResp \in EmbeddingResponses,
          resp \in KnnResponses :
         LET r == text_similarity_search(text, k, embResp, resp)
         IN  inv' = [op |-> "text_similarity_search",
                     args |-> [text |-> text, k |-> k],
                     calls |-> r.calls, result |-> r.result]
    /\ UNCHANGED <<api_token, phase, registry, store>>

BulkIndexWithEmbeddings ==
    /\ phase = "running" /\ inv.op = "idle"
    /\ \E documents \in SeqsUpTo(BulkDocs, MaxDocs), text_field \in TextFields,
          behaviour \in BulkBehaviours :
         \E resps \in [1..Len(documents) -> BulkEmbeddingResponses] :
           LET r == bulk_index_with_embeddings(documents, text_field, resps, behaviour)
           IN  /\ inv' = [op |-> "bulk_index_with_embeddings",
                          args |-> [documents |-> documents, text_field |-> text_field],
                          calls |-> r.calls, result |-> r.result,
                          processed_docs |-> r.processed_docs,
                          failed_docs |-> r.failed_docs,
                          env |-> [resps |-> resps, behaviour |-> behaviour]]
               /\ store' = r.store
    /\ UNCHANGED <<api_token, phase, registry>>

SearchDocuments ==
    /\ phase = "running" /\ inv.op = "idle"
    /\ \E query \in Queries, size \in Ks, resp \in KnnResponses :
         LET r == search_documents(query, size, resp)
         IN  inv' = [op |-> "search_documents",
                     args |-> [query |-> query, size |-> size],
                     calls |-> r.calls, result |-> r.result]
    /\ UNCHANGED <<api_token, phase, registry, store>>

GetDocument ==
    /\ phase = "running" /\ inv.op = "idle"
    /\ \E document_id \in StoredIds, behaviour \in SearchBehaviours :
         LET r == get_document(document_id, behaviour)
         IN  inv' = [op |-> "get_document",
                     args |-> [document_id |-> document_id],
                     calls |-> r.calls, result |-> r.result]
    /\ UNCHANGED <<api_token, phase, registry, store>>

PutDocument ==
    /\ phase = "running" /\ inv.op = "idle"
    /\ \E document_id \in StoredIds, document \in PutDocs,
          behaviour \in ServiceBehaviours :
         LET r == put(document_id, document, behaviour)
         IN  /\ inv' = [op |-> "put",
                        args |-> [document_id |-> document_id, document |-> document],
                        calls |-> r.calls, result |-> r.result]
             /\ store' = r.store
    /\ UNCHANGED <<api_token, phase, registry>>

DeleteDocument ==
    /\ phase = "running" /\ inv.op = "idle"
    /\ \E document_id \in StoredIds, behaviour \in ServiceBehaviours :
         LET r == delete_document(document_id, behaviour)
         IN  /\ inv' = [op |-> "delete_document",
                        args |-> [document_id |-> document_id],
                        calls |-> r.calls, result |-> r.result]
             /\ store' = r.store
    /\ UNCHANGED <<api_token, phase, registry>>

BulkIndexDocuments ==
    /\ phase = "running" /\ inv.op = "idle"
    /\ \E documents \in SeqsUpTo(BulkDocs, MaxDocs), generate_ids \in BOOLEAN,
          behaviour \in BulkBehaviours :
         LET r == bulk_index_documents(documents, generate_ids, behaviour)
         IN  /\ inv' = [op |-> "bulk_index_documents",
                        args |-> [documents |-> documents,
                                  generate_ids |-> generate_ids],
                        calls |-> r.calls, result |-> r.result]
             /\ store' = r.store
    /\ UNCHANGED <<api_token, phase, registry>>

RegisterTools ==
    /\ phase = "boot"
    /\ registry' = registry \cup SearchMCPServer_register_tools
    /\ phase' = "running"
    /\ UNCHANGED <<api_token, store, inv>>

Return ==
    /\ inv.op # "idle"
    /\ inv' = Idle
    /\ UNCHANGED <<api_token, phase, registry, store>>

Init ==
    /\ api_token \in Tokens
    /\ phase = "boot"
    /\ registry = {}
    /\ store = EmptyDict
    /\ inv = Idle

Next ==
    \/ GenerateEmbedding
    \/ KnnSearch
    \/ IndexTextWithEmbedding
    \/ TextSimilaritySearch
    \/ BulkIndexWithEmbeddings
    \/ SearchDocuments
    \/ GetDocument
    \/ PutDocument
    \/ DeleteDocument
    \/ BulkIndexDocuments
    \/ RegisterTools
    \/ Return

Spec == Init /\ [][Next]_vars

-----------------------------------------------------------------------------
(* Properties *)

IndexCalls == {i \in 1..Len(inv.calls) : inv.calls[i].service = "index"}
EmbeddingCalls == {i \in 1..Len(inv.calls) : inv.calls[i].service = "embedding"}
BulkCalls == {i \in 1..Len(inv.calls) : inv.calls[i].call = "bulk"}

\* C1: knn_search with a vector whose length is not the configured dimension
\* (1024) returns status "error" with a message naming the expected and the
\* actual dimension, and issues no call to the index service.
C1_DimensionMismatchRejected ==
    (inv.op = "knn_search" /\ PyLen(inv.args.vector) # 1024) =>
        /\ inv.result.status = "error"
        /\ inv.result.message = "Vector dimension mismatch. Expected 1024, got "
                                   \o ToString(PyLen(inv.args.vector))
        /\ IndexCalls = {}

C1_Witness ==
    /\ inv.op = "knn_search"
    /\ PyLen(inv.args.vector) = 1025
    /\ inv.result.status = "error"
    /\ inv.calls = <<>>

\* C2: with no API token configured (None or the empty string),
\* generate_embedding returns status "error" saying the token is not
\* configured, whatever the text and the model, and no operation issues a
\* call to the embedding provider.
C2_NoTokenNoNetworkCall ==
    (api_token = NoneVal \/ api_token = "") =>
        /\ EmbeddingCalls = {}
        /\ inv.op = "generate_embedding" =>
             /\ inv.result.status = "error"
             /\ inv.result.message = "API token not configured for embedding service"

C2_Witness ==
    /\ api_token = ""
    /\ inv.op = "generate_embedding"
    /\ inv.args.model # NoneVal
    /\ inv.result.status = "error"
    /\ inv.calls = <<>>

\* C3: bulk_index_with_embeddings accounts for every input document: the
\* processed and the failed documents add up to the input list, the counts
\* of a success result say so, and when no document was processed the result
\* is an error carrying the failure of every input document, in order, and
\* no bulk write is issued.
C3_BulkCountsAddUp ==
    inv.op = "bulk_index_with_embeddings" =>
        LET n == Len(inv.args.documents)
        IN  /\ Len(inv.processed_docs) + Len(inv.failed_docs) = n
            /\ inv.result.status = "success" =>
                 /\ inv.result.processed_count + inv.result.failed_count = n
                 /\ inv.result.processed_count = Len(inv.processed_docs)
                 /\ inv.result.processed_count > 0
            /\ Len(inv.processed_docs) = 0 =>
                 /\ inv.result.status = "error"
                 /\ "failed_docs" \in DOMAIN inv.result
                 /\ Len(inv.result.failed_docs) = n
                 /\ \A i \in 1..n : inv.result.failed_docs[i].doc = inv.args.documents[i]
                 /\ BulkCalls = {}

C3_Witness ==
    /\ inv.op = "bulk_index_with_embeddings"
    /\ Len(inv.args.documents) = 2
    /\ Len(inv.processed_docs) = 0
    /\ inv.result.status = "error"
    /\ Len(inv.result.failed_docs) = 2
    /\ EmbeddingCalls # {}

\* C5: a successful knn_search or text_similarity_search returns items that
\* have exactly the fields id, score, text and metadata, whose metadata holds
\* neither the vector field nor the text field, and a total equal to the
\* number of items, whatever source fields the hits carry.
C5_ResultsNeverExposeVector ==
    (inv.op \in {"knn_search", "text_similarity_search"}
       /\ inv.result.status = "success") =>
        /\ "results" \in DOMAIN inv.result
        /\ inv.result.total = Len(inv.result.results)
        /\ \A i \in 1..Len(inv.result.results) :
             LET item == inv.result.results[i]
             IN  /\ DOMAIN item = {"id", "score", "text", "metadata"}
                 /\ "dense_vector" \notin DOMAIN item.metadata
                 /\ "text" \notin DOMAIN item.metadata

C5_Witness ==
    /\ inv.op = "text_similarity_search"
    /\ inv.result.status = "success"
    /\ inv.result.total = 2
    /\ \E i \in IndexCalls :
         \E j \in 1..Len(inv.calls[i].response.results.hits.hits) :
            LET hit == inv.calls[i].response.results.hits.hits[j]
            IN  "_source" \in DOMAIN hit /\ "dense_vector" \in DOMAIN hit._source

\* C7: in bulk_index_with_embeddings a document without the text field or
\* whose embedding fails never aborts the batch. Every such document is in
\* the failure list, in input order, with its reason; whenever at least one
\* document embeds, exactly one bulk write is issued, whose body alternates
\* action header and document body and holds, in input order, exactly the
\* documents that embedded (an _id moves from the body to the header).
C7_PartialFailureNeverAborts ==
    inv.op = "bulk_index_with_embeddings" =>
        LET docs == inv.args.documents
            tf == inv.args.text_field
            Embedding(i) == generate_embedding(docs[i][tf], NoneVal, inv.env.resps[i]).result
            Good(i) == tf \in DOMAIN docs[i] /\ Embedding(i).status = "success"
            Bad(i) == ~Good(i)
            idx == [i \in 1..Len(docs) |-> i]
            G == SelectSeq(idx, Good)
            F == SelectSeq(idx, Bad)
        IN  /\ Len(inv.failed_docs) = Len(F)
            /\ \A j \in 1..Len(F) :
                 /\ inv.failed_docs[j].doc = docs[F[j]]
                 /\ inv.failed_docs[j].reason =
                      IF tf \notin DOMAIN docs[F[j]]
                      THEN "Missing text field '" \o tf \o "'"
                      ELSE Embedding(F[j]).message
            /\ (inv.result.status = "success" /\ F # <<>>) =>
                 inv.result.failed_docs = inv.failed_docs
            /\ G # <<>> =>
                 /\ Cardinality(BulkCalls) = 1
                 /\ \A c \in BulkCalls :
                      LET body == inv.calls[c].body
                      IN  /\ Len(body) = 2 * Len(G)
                          /\ \A j \in 1..Len(G) :
                               LET doc == docs[G[j]]
                                   header == body[2 * j - 1]
                                   written == body[2 * j]
                               IN  /\ DOMAIN header = {"index"}
                                   /\ header.index =
                                        IF "_id" \in DOMAIN doc
                                        THEN [_index |-> "default-index", _id |-> doc._id]
                                        ELSE [_index |-> "default-index"]
                                   /\ DOMAIN written =
                                        ((DOMAIN doc) \ {"_id"}) \cup {"dense_vector"}
                                   /\ \A f \in (DOMAIN doc) \ {"_id"} : written[f] = doc[f]
                                   /\ written.dense_vector = Embedding(G[j]).embedding

C7_Witness ==
    /\ inv.op = "bulk_index_with_embeddings"
    /\ inv.args.documents = << [foo |-> "b"], [_id |-> "d1", text |-> "beta"] >>
    /\ inv.args.text_field = "text"
    /\ inv.result.status = "success"
    /\ inv.result.processed_count = 1
    /\ inv.result.failed_count = 1
    /\ inv.result.failed_docs[1].reason = "Missing text field 'text'"
    /\ Cardinality(BulkCalls) = 1


\* C4: a successful index_text_with_embedding(text, id, metadata) followed
\* by get_document(id) returns a document whose text field is the original
\* text and whose vector field has exactly the configured dimension (1024).
\* get_document is evaluated on the state the indexing left, with the index
\* service answering from its store; stated here for the non-empty ids.
C4_IndexThenGetRoundTrip ==
    (inv.op = "index_text_with_embedding" /\ inv.result.status = "success"
       /\ inv.args.document_id \notin {NoneVal, ""}) =>
        LET got == get_document(inv.args.document_id, "ok").result
        IN  /\ got.status = "success"
            /\ got.document._source.text = inv.args.text
            /\ PyLen(got.document._source.dense_vector) = 1024

WorkflowOperations ==
    {"index_text_with_embedding", "text_similarity_search", "knn_search",
     "bulk_index_with_embeddings", "get_document", "put", "delete_document",
     "bulk_index_documents"}

\* C6: every workflow-level operation returns a result with status
\* "success" or "error" whatever the two remote services do; no fault
\* escapes to the caller.
C6_NoFaultEscapes ==
    inv.op \in WorkflowOperations => inv.result.status \in {"success", "error"}

\* C8: every embedding vector sent to the index service, as the query
\* vector of a kNN search or as the dense_vector of a document written by
\* index_text_with_embedding or bulk_index_with_embeddings, has exactly the
\* configured dimension (1024).
C8_VectorsSentHaveConfiguredDimension ==
    \A i \in IndexCalls :
        LET c == inv.calls[i]
        IN  /\ (inv.op \in {"knn_search", "text_similarity_search"}
                  /\ c.call = "search_documents") =>
                 PyLen(c.query.json.query.knn.dense_vector.vector) = 1024
            /\ (inv.op = "index_text_with_embedding"
                  /\ c.call \in {"write_document", "index_document"}) =>
                 PyLen(c.document.dense_vector) = 1024
            /\ (inv.op = "bulk_index_with_embeddings" /\ c.call = "bulk") =>
                 \A j \in 1..Len(c.body) :
                    "dense_vector" \in DOMAIN c.body[j] =>
                        PyLen(c.body[j].dense_vector) = 1024

\* C9: with a token configured, generate_embedding returns "success" only
\* when the provider's payload holds a first embedding vector, which it
\* returns; a transport or HTTP failure gives the error "API request
\* failed", and a payload with no data, an empty data list or no embedding
\* field gives the error "Unexpected error".
C9_EmbeddingSuccessOnlyWithVector ==
    (inv.op = "generate_embedding" /\ api_token \notin {NoneVal, ""}) =>
        LET resp == inv.calls[1].response
            transport == resp.kind = "conn_error" \/ resp.status_code >= 400
            hasVector == /\ ~transport
                         /\ "data" \in DOMAIN resp.body
                         /\ Len(resp.body.data) > 0
                         /\ "embedding" \in DOMAIN resp.body.data[1]
        IN  /\ inv.result.status \in {"success", "error"}
            /\ inv.result.status = "success" =>
                 /\ hasVector
                 /\ inv.result.embedding = resp.body.data[1].embedding
            /\ transport =>
                 /\ inv.result.status = "error"
                 /\ inv.result.message \in
                      {"API request failed: connection refused",
                       "API request failed: 500 Server Error"}
            /\ (~transport /\ ~hasVector) =>
                 /\ inv.result.status = "error"
                 /\ inv.result.message \in
                      {"Unexpected error: list index out of range",
                       "Unexpected error: 'data'", "Unexpected error: 'embedding'"}

SpecifiedTools ==
    {"index_text_with_embedding", "bulk_index_with_embeddings", "knn_search",
     "text_similarity_search", "search_documents", "get_document", "put",
     "delete_document", "bulk_index_documents"}

\* C10: after startup every workflow operation of the specification is a
\* registered tool.
C10_AllOperationsRegistered ==
    phase = "running" => SpecifiedTools \subseteq registry

(* The result of the one generate_embedding call of the invocation in hand *)
(* (index_text_with_embedding, text_similarity_search): without a token it *)
(* is the configuration error, else it is decided by the provider's answer *)
(* to the POST, the first call of the invocation.                          *)
EmbeddingResultOfInvocation ==
    generate_embedding(inv.args.text, NoneVal,
                       IF inv.calls = <<>> THEN [kind |-> "conn_error", error |-> ""]
                       ELSE inv.calls[1].response).result

EmbeddingCallComesFirst ==
    /\ Cardinality(EmbeddingCalls) = (IF api_token \in {NoneVal, ""} THEN 0 ELSE 1)
    /\ EmbeddingCalls \subseteq {1}

\* C11 as stated: in every invocation of index_text_with_embedding and of
\* text_similarity_search one embedding call is made, before any index
\* call; if it fails its error is the result and no index call is made; if
\* it succeeds exactly one index call follows (a write, respectively a kNN
\* search), whose failure is returned unchanged; nothing is retried. The
\* success case is stated for the provider answers that hold an embedding
\* vector.
C11_OneEmbeddingThenOneIndexCall ==
    inv.op \in {"index_text_with_embedding", "text_similarity_search"} =>
        LET e == EmbeddingResultOfInvocation
            body == inv.calls[1].response.body
        IN  /\ EmbeddingCallComesFirst
            /\ e.status # "success" =>
                 /\ inv.result = e
                 /\ IndexCalls = {}
            /\ (e.status = "success" /\ "data" \in DOMAIN body
                  /\ "embedding" \in DOMAIN body.data[1]) =>
                 /\ Len(inv.calls) = 2
                 /\ IndexCalls = {2}
                 /\ inv.calls[2].call \in
                      (IF inv.op = "index_text_with_embedding"
                       THEN {"write_document", "index_document"}
                       ELSE {"search_documents"})
                 /\ inv.calls[2].response.status # "success" =>
                      inv.result = inv.calls[2].response

\* C11 as amended: as above, but in text_similarity_search a produced
\* vector whose length is not the configured dimension (1024) is followed
\* by no index call: the result is knn_search's dimension mismatch error.
C11_OneEmbeddingThenAtMostOneIndexCall ==
    inv.op \in {"index_text_with_embedding", "text_similarity_search"} =>
        LET e == EmbeddingResultOfInvocation
            rejected == /\ inv.op = "text_similarity_search"
                        /\ PyLen(e.embedding) # 1024
        IN  /\ EmbeddingCallComesFirst
            /\ e.status # "success" =>
                 /\ inv.result = e
                 /\ IndexCalls = {}
            /\ (e.status = "success" /\ rejected) =>
                 /\ IndexCalls = {}
                 /\ Len(inv.calls) = 1
                 /\ inv.result =
                      [status |-> "error",
                       message |-> "Vector dimension mismatch. Expected 1024, got "
                                      \o ToString(PyLen(e.embedding))]
            /\ (e.status = "success" /\ ~rejected) =>
                 /\ Len(inv.calls) = 2
                 /\ IndexCalls = {2}
                 /\ inv.calls[2].call \in
                      (IF inv.op = "index_text_with_embedding"
                       THEN {"write_document", "index_document"}
                       ELSE {"search_documents"})
                 /\ inv.calls[2].response.status # "success" =>
                      inv.result = inv.calls[2].response

C11_Witness ==
    /\ inv.op = "text_similarity_search"
    /\ EmbeddingResultOfInvocation.status = "success"
    /\ Len(inv.calls) = 2
    /\ inv.calls[1].service = "embedding"
    /\ inv.calls[2].call = "search_documents"
    /\ inv.calls[2].response.status = "error"
    /\ inv.result = inv.calls[2].response

(* The document index_text_with_embedding is to write: the metadata (the  *)
(* empty mapping when none is given) with the text and the produced vector. *)
WrittenAsSpecified(document) ==
    LET given == IF inv.args.metadata = NoMetadata THEN EmptyDict
                 ELSE inv.args.metadata[1]
    IN  /\ DOMAIN document = (DOMAIN given) \cup {"text", "dense_vector"}
        /\ document.text = inv.args.text
        /\ document.dense_vector = EmbeddingResultOfInvocation.embedding
        /\ \A f \in (DOMAIN given) \ {"text", "dense_vector"} : document[f] = given[f]

\* C12 as stated: after a successful embedding index_text_with_embedding
\* writes metadata (or the empty mapping) with the text and the produced
\* vector; whenever a document id is given, any string, write_document is
\* called with that id and index_document is not; with no id index_document
\* is called and write_document is not; the write result is returned verbatim.
C12_GivenIdIsWrittenUnderThatId ==
    (inv.op = "index_text_with_embedding"
       /\ EmbeddingResultOfInvocation.status = "success") =>
        /\ Len(inv.calls) = 2
        /\ WrittenAsSpecified(inv.calls[2].document)
        /\ inv.result = inv.calls[2].response
        /\ inv.args.document_id # NoneVal =>
             /\ inv.calls[2].call = "write_document"
             /\ inv.calls[2].document_id = inv.args.document_id
        /\ inv.args.document_id = NoneVal =>
             inv.calls[2].call = "index_document"

\* C12 as amended: as above, but write_document is called, with exactly the
\* given id, whenever a non-empty document id is given; when the id is
\* absent or the empty string, index_document is called and write_document
\* is not.
C12_NonEmptyIdIsWrittenUnderThatId ==
    (inv.op = "index_text_with_embedding"
       /\ EmbeddingResultOfInvocation.status = "success") =>
        /\ Len(inv.calls) = 2
        /\ WrittenAsSpecified(inv.calls[2].document)
        /\ inv.result = inv.calls[2].response
        /\ inv.args.document_id \notin {NoneVal, ""} =>
             /\ inv.calls[2].call = "write_document"
             /\ inv.calls[2].document_id = inv.args.document_id
        /\ inv.args.document_id \in {NoneVal, ""} =>
             inv.calls[2].call = "index_document"

C12_Witness ==
    /\ inv.op = "index_text_with_embedding"
    /\ inv.args.document_id = "d1"
    /\ inv.args.metadata = << [tag |-> "m", text |-> "stale"] >>
    /\ Len(inv.calls) = 2
    /\ inv.calls[2].call = "write_document"
    /\ inv.calls[2].document.text = inv.args.text
    /\ inv.calls[2].document.tag = "m"
    /\ inv.result.status = "success"

=============================================================================
